---- MODULE Spec2Model ----
(***************************************************************************)
(* Model of FeedbackGenerator (src/feedback_system.py): the similarity     *)
(* scorer, the reward classifier, the feedback composer, the history and   *)
(* alert lists and the aggregate queries.                                  *)
(*                                                                         *)
(* Scores are held in hundredths (0.3 is 30, 1.0 is 100).  The embedding   *)
(* provider is an input of every call: it returns integer vectors, and the *)
(* vectors drawn here all have Euclidean norm 10 or 0, so that every       *)
(* cosine similarity is an exact number of hundredths.                     *)
(***************************************************************************)
EXTENDS Integers, Sequences, FiniteSets, TLC

VARIABLES feedback_history, educator_alerts, now, ret, calls

\* calls holds, for each thread that calls generate_feedback concurrently
\* with another, the position the call has reached and its local variables

vars == <<feedback_history, educator_alerts, now, ret, calls>>

----------------------------------------------------------------------------
(* Bounds of the model *)

\* longest history explored by Spec
MaxHist == 3
\* longest history explored by SpecScore
MaxHistScore == 2
\* longest history explored by SpecAlerts
MaxHistAlerts == 6
\* clock ticks explored by SpecClock
MaxClock == 2
\* longest history of SpecClock
MaxHistClock == 2
\* longest history of SpecDashboard
MaxHistDashboard == 4
\* longest history of SpecRoundRobin
MaxHistRoundRobin == 7
\* longest history before the two concurrent calls of SpecConcurrent
MaxHistConcurrent == 2
\* clock ticks per second of wall time (strftime's %S granularity)
TicksPerSecond == 2

Students == {"alice_001", "bob_002"}

----------------------------------------------------------------------------
(* Helpers on sequences and sets *)

RECURSIVE SumSeq(_)
SumSeq(s) == IF s = <<>> THEN 0 ELSE Head(s) + SumSeq(Tail(s))

RECURSIVE Flatten(_)
Flatten(ss) == IF ss = <<>> THEN <<>> ELSE Head(ss) \o Flatten(Tail(ss))

\* the last n elements of s: Python's s[-n:]
LastN(s, n) == IF Len(s) <= n THEN s ELSE SubSeq(s, Len(s) - n + 1, Len(s))

Reverse(s) == [i \in 1..Len(s) |-> s[Len(s) + 1 - i]]

MinOf(S) == CHOOSE x \in S : \A y \in S : x <= y
MaxOf(S) == CHOOSE x \in S : \A y \in S : x >= y

----------------------------------------------------------------------------
(* RewardType and the two tables built by the constructor *)

RewardType == <<"bronze", "silver", "gold", "platinum">>

\* subject -> the topics in insertion order, each a list of reference texts
reference_answers ==
  [mathematics |-> << <<"m_alg_1", "m_alg_2", "m_alg_3">>,
                      <<"m_geo_1", "m_geo_2", "m_geo_3">> >>,
   science     |-> << <<"s_phy_1", "s_phy_2", "s_phy_3">>,
                      <<"s_che_1", "s_che_2", "s_che_3">> >>,
   english     |-> << <<"e_lit_1", "e_lit_2", "e_lit_3">>,
                      <<"e_gra_1", "e_gra_2", "e_gra_3">> >>]

\* the dict in insertion order: platinum, gold, silver, bronze
reward_criteria ==
  << [reward_type |-> "platinum", min_score |-> 90, points |-> 100,
      description |-> "Exceptional understanding!"],
     [reward_type |-> "gold",     min_score |-> 80, points |-> 75,
      description |-> "Excellent work!"],
     [reward_type |-> "silver",   min_score |-> 65, points |-> 50,
      description |-> "Good effort!"],
     [reward_type |-> "bronze",   min_score |-> 40, points |-> 25,
      description |-> "Keep trying!"] >>

criteria_of(reward_type) ==
  reward_criteria[CHOOSE i \in 1..Len(reward_criteria) :
                    reward_criteria[i].reward_type = reward_type]

----------------------------------------------------------------------------
(* The clock: datetime.now() and strftime('%Y%m%d_%H%M%S') *)

\* formatting to whole seconds drops the sub-second part of the time
strftime(t) == t \div TicksPerSecond

\* isoformat() keeps the full resolution of the time
isoformat(t) == <<"iso", t>>

----------------------------------------------------------------------------
(* The embedding provider (SentenceTransformer.encode), an input of a call *)

Zero == <<0, 0, 0, 0>>
E1 == <<10, 0, 0, 0>>
E2 == <<0, 10, 0, 0>>

\* what encode returns for the response text
RespVecs ==
  { E1,                    \* parallel to E1
    <<2, 8, 4, 4>>,        \* cosine 0.2 with E1, 0.8 with E2
    <<3, 1, 3, 9>>,        \* cosine 0.3 with E1
    <<-2, -8, -4, -4>>,    \* negative cosine with E1 and with E2
    Zero,                  \* the zero vector
    <<10, 0, 0>> }         \* a vector of another dimension

FirstTexts == {"m_alg_1", "s_phy_1", "e_lit_1"}

IsReferenceText(text) ==
  \E subj \in DOMAIN reference_answers :
     \E k \in 1..Len(Flatten(reference_answers[subj])) :
        Flatten(reference_answers[subj])[k] = text

\* what encode returns for one reference text, by the provider's behaviour
RefVector(refs, text) ==
  IF refs = "same" THEN E1
  ELSE IF ~IsReferenceText(text) THEN E2
  ELSE IF text \in FirstTexts THEN E1
  ELSE Zero

\* fail = 0: both encode calls return; fail = 1 (2): the first (second) raises
Providers ==
  [fail : {0}, resp : RespVecs, refs : {"same"}]
    \cup [fail : {0}, resp : {<<2, 8, 4, 4>>, <<-2, -8, -4, -4>>}, refs : {"spread"}]
    \cup [fail : {1, 2}, resp : {E1}, refs : {"same"}]

encode(prov, texts) == [i \in 1..Len(texts) |-> RefVector(prov.refs, texts[i])]

----------------------------------------------------------------------------
(* sklearn.metrics.pairwise.cosine_similarity on integer vectors *)

Dot(u, v) == SumSeq([i \in 1..Len(u) |-> u[i] * v[i]])

ISqrt(n) == CHOOSE k \in 0..n : k * k <= n /\ n < (k + 1) * (k + 1)

\* normalize() divides by the norm, with a zero norm replaced by 1
Norm(u) == LET n == ISqrt(Dot(u, u)) IN IF n = 0 THEN 1 ELSE n

\* in hundredths; exact for the vectors of norm 10 or 0 drawn here
CosSim(u, v) == (100 * Dot(u, v)) \div (Norm(u) * Norm(v))

\* check_pairwise_arrays raises ValueError on differing dimensions
Compatible(u, vs) == \A i \in 1..Len(vs) : Len(vs[i]) = Len(u)

cosine_similarity(u, vs) == [i \in 1..Len(vs) |-> CosSim(u, vs[i])]

\* np.argsort, ascending; equal values keep their index order (the insertion
\* sort numpy runs on arrays of fewer than 16 elements)
ArgSort(xs) ==
  LET pos(i) == 1 + Cardinality({j \in 1..Len(xs) :
                       xs[j] < xs[i] \/ (xs[j] = xs[i] /\ j < i)})
  IN  [k \in 1..Len(xs) |-> CHOOSE i \in 1..Len(xs) : pos(i) = k]

----------------------------------------------------------------------------
(* analyze_response *)

\* the subject compared as it is written
Lower_identity(subject) == subject

Lower(subject) ==
  CASE subject = "Science" -> "science"
    [] subject = "MATHEMATICS" -> "mathematics"
    [] OTHER -> subject

\* " ".join(expected_keywords): one more reference text
keyword_text(expected_keywords) ==
  IF expected_keywords = <<"force", "mass">> THEN "force mass"
  ELSE IF Len(expected_keywords) = 1 THEN expected_keywords[1]
  ELSE "keywords"

\* the pair returned for a subject that has no reference answers
unknown_subject_result == [score |-> 50, matches |-> <<>>]

\* the except clause returning the neutral default
exception_result_neutral == [score |-> 50, matches |-> <<>>]

\* the pair returned by the except clause
exception_result == [score |-> 0, matches |-> <<>>]

\* the pair returned (score, matches), the number of encode calls made, the
\* exception the except clause caught and the log level used
analyze_response(student_response, prov) ==
  LET subject == Lower(student_response.subject)
  IN
  IF subject \notin DOMAIN reference_answers
  THEN [result |-> unknown_subject_result, encode_calls |-> 0,
        caught |-> "none", log |-> "warning"]
  ELSE
    LET topic_refs == Flatten(reference_answers[subject])
        all_refs == IF student_response.expected_keywords # <<>>
                    THEN Append(topic_refs,
                                keyword_text(student_response.expected_keywords))
                    ELSE topic_refs
    IN
    IF prov.fail = 1
    THEN [result |-> exception_result, encode_calls |-> 1,
          caught |-> "encode", log |-> "error"]
    ELSE IF prov.fail = 2
    THEN [result |-> exception_result, encode_calls |-> 2,
          caught |-> "encode", log |-> "error"]
    ELSE
      LET student_embedding == prov.resp
          reference_embeddings == encode(prov, all_refs)
      IN
      IF ~Compatible(student_embedding, reference_embeddings)
      THEN [result |-> exception_result, encode_calls |-> 2,
            caught |-> "ValueError", log |-> "error"]
      ELSE
        LET similarities ==
              cosine_similarity(student_embedding, reference_embeddings)
            max_similarity ==
              MaxOf({similarities[i] : i \in 1..Len(similarities)})
            top_indices == Reverse(LastN(ArgSort(similarities), 3))
            kept == SelectSeq(top_indices, LAMBDA i : similarities[i] > 30)
            best_matches == [k \in 1..Len(kept) |-> all_refs[kept[k]]]
        IN [result |-> [score |-> max_similarity, matches |-> best_matches],
            encode_calls |-> 2, caught |-> "none", log |-> "none"]

----------------------------------------------------------------------------
(* determine_reward *)

\* determine_reward with the threshold test made strict
determine_reward_strict(similarity_score) ==
  LET hits == {i \in 1..Len(reward_criteria) :
                 similarity_score > reward_criteria[i].min_score}
  IN  IF hits = {}
      THEN <<"bronze", 10>>
      ELSE <<reward_criteria[MinOf(hits)].reward_type,
             reward_criteria[MinOf(hits)].points>>

\* the first criterion, in dict order, whose min_score the score reaches
determine_reward(similarity_score) ==
  LET hits == {i \in 1..Len(reward_criteria) :
                 similarity_score >= reward_criteria[i].min_score}
  IN  IF hits = {}
      THEN <<"bronze", 10>>
      ELSE <<reward_criteria[MinOf(hits)].reward_type,
             reward_criteria[MinOf(hits)].points>>

----------------------------------------------------------------------------
(* generate_personalized_feedback *)

\* the middle band starting at the silver threshold
generate_personalized_feedback_silver_band(student_response, similarity_score, best_matches) ==
  LET strengths ==
        IF similarity_score >= 80
        THEN <<"Demonstrates strong understanding of key concepts",
               "Uses appropriate terminology",
               "Provides clear explanations">>
        ELSE IF similarity_score >= 65
        THEN <<"Shows good grasp of basic concepts",
               "Attempts to explain reasoning">>
        ELSE <<"Shows effort in attempting the question">>
      improvement_areas ==
        IF similarity_score >= 80
        THEN <<>>
        ELSE IF similarity_score >= 65
        THEN <<"Could use more specific terminology",
               "Explanations could be more detailed">>
        ELSE <<"Needs to review fundamental concepts",
               "Requires more specific and detailed responses">>
      tips ==
        IF similarity_score >= 80
        THEN <<"Try to add more examples to strengthen your explanations",
               "Consider exploring advanced applications of these concepts">>
        ELSE IF similarity_score >= 65
        THEN <<"Review key vocabulary for this topic",
               "Practice explaining concepts in your own words",
               "Try to include specific examples">>
        ELSE <<"Review the lesson materials again",
               "Ask your teacher for clarification on confusing topics",
               "Practice with similar problems",
               "Try to break down complex problems into smaller steps">>
      reward == determine_reward(similarity_score)
      reward_desc == criteria_of(reward[1]).description
      sentence ==
        IF similarity_score >= 80
        THEN "You've shown excellent understanding of this topic. Your response demonstrates clear thinking and good use of relevant concepts."
        ELSE IF similarity_score >= 65
        THEN "You're on the right track! Your response shows good understanding, with room for more detail and precision."
        ELSE "Keep working on this topic. Review the key concepts and try to be more specific in your explanations."
  IN  [feedback_text |-> <<reward_desc, sentence>>,
       strengths |-> strengths,
       improvement_areas |-> improvement_areas,
       tips |-> tips,
       reward_type |-> reward[1],
       points |-> reward[2]]

\* the text is the reward description, a space, and the band's sentence;
\* it is held as the pair of its two parts
generate_personalized_feedback(student_response, similarity_score, best_matches) ==
  LET strengths ==
        IF similarity_score >= 80
        THEN <<"Demonstrates strong understanding of key concepts",
               "Uses appropriate terminology",
               "Provides clear explanations">>
        ELSE IF similarity_score >= 60
        THEN <<"Shows good grasp of basic concepts",
               "Attempts to explain reasoning">>
        ELSE <<"Shows effort in attempting the question">>
      improvement_areas ==
        IF similarity_score >= 80
        THEN <<>>
        ELSE IF similarity_score >= 60
        THEN <<"Could use more specific terminology",
               "Explanations could be more detailed">>
        ELSE <<"Needs to review fundamental concepts",
               "Requires more specific and detailed responses">>
      tips ==
        IF similarity_score >= 80
        THEN <<"Try to add more examples to strengthen your explanations",
               "Consider exploring advanced applications of these concepts">>
        ELSE IF similarity_score >= 60
        THEN <<"Review key vocabulary for this topic",
               "Practice explaining concepts in your own words",
               "Try to include specific examples">>
        ELSE <<"Review the lesson materials again",
               "Ask your teacher for clarification on confusing topics",
               "Practice with similar problems",
               "Try to break down complex problems into smaller steps">>
      reward == determine_reward(similarity_score)
      reward_desc == criteria_of(reward[1]).description
      sentence ==
        IF similarity_score >= 80
        THEN "You've shown excellent understanding of this topic. Your response demonstrates clear thinking and good use of relevant concepts."
        ELSE IF similarity_score >= 60
        THEN "You're on the right track! Your response shows good understanding, with room for more detail and precision."
        ELSE "Keep working on this topic. Review the key concepts and try to be more specific in your explanations."
  IN  [feedback_text |-> <<reward_desc, sentence>>,
       strengths |-> strengths,
       improvement_areas |-> improvement_areas,
       tips |-> tips,
       reward_type |-> reward[1],
       points |-> reward[2]]

----------------------------------------------------------------------------
(* _check_for_educator_alerts: the alerts one call appends, given the      *)
(* history that already holds the call's record                            *)

\* the low performance test with the boundary score included
low_performance_inclusive(similarity_score) == similarity_score <= 30

\* the low performance test
low_performance(similarity_score) == similarity_score < 30

\* the scores of the student in the whole history, not windowed
recent_scores_of_all(history, student_id) ==
  LET recent == SelectSeq(history, LAMBDA f : f.student_id = student_id)
  IN  [i \in 1..Len(recent) |-> recent[i].similarity_score]

\* the scores of the student among the last five records of the history
recent_scores_of(history, student_id) ==
  LET recent == SelectSeq(LastN(history, 5),
                          LAMBDA f : f.student_id = student_id)
  IN  [i \in 1..Len(recent) |-> recent[i].similarity_score]

\* the consistent struggle test asking for four records
consistent_struggle_four(recent_scores) ==
  /\ Len(recent_scores) >= 4
  /\ \A i \in 1..Len(recent_scores) : recent_scores[i] < 50

\* the consistent struggle test
consistent_struggle(recent_scores) ==
  /\ Len(recent_scores) >= 3
  /\ \A i \in 1..Len(recent_scores) : recent_scores[i] < 50

check_for_educator_alerts(history, student_response, similarity_score, t) ==
  LET low ==
        IF low_performance(similarity_score)
        THEN << [alert_id |-> <<"alert", strftime(t), "">>,
                 student_id |-> student_response.student_id,
                 alert_type |-> "low_performance",
                 severity |-> "high",
                 description |-> <<"Student showing very low understanding in",
                                   student_response.subject>>,
                 timestamp |-> t,
                 action_required |-> TRUE] >>
        ELSE <<>>
      recent_scores == recent_scores_of(history, student_response.student_id)
      pattern ==
        IF consistent_struggle(recent_scores)
        THEN << [alert_id |-> <<"alert", strftime(t), "_pattern">>,
                 student_id |-> student_response.student_id,
                 alert_type |-> "consistent_struggle",
                 severity |-> "medium",
                 description |-> <<"Student showing consistent difficulties across multiple responses",
                                   "">>,
                 timestamp |-> t,
                 action_required |-> TRUE] >>
        ELSE <<>>
  IN  low \o pattern

----------------------------------------------------------------------------
(* generate_feedback *)

make_feedback(student_response, analysis, t) ==
  LET feedback_data ==
        generate_personalized_feedback(student_response, analysis.result.score,
                                       analysis.result.matches)
  IN  [response_id |-> <<"resp", strftime(t)>>,
       student_id |-> student_response.student_id,
       similarity_score |-> analysis.result.score,
       reward_type |-> feedback_data.reward_type,
       feedback_text |-> feedback_data.feedback_text,
       strengths |-> feedback_data.strengths,
       improvement_areas |-> feedback_data.improvement_areas,
       personalized_tips |-> feedback_data.tips,
       points_earned |-> feedback_data.points,
       timestamp |-> t]

generate_feedback(student_response, prov) ==
  LET analysis == analyze_response(student_response, prov)
      feedback == make_feedback(student_response, analysis, now)
      history == Append(feedback_history, feedback)
  IN  /\ feedback_history' = history
      /\ educator_alerts' = educator_alerts \o
             check_for_educator_alerts(history, student_response,
                                       analysis.result.score, now)
      /\ ret' = [op |-> "generate_feedback",
                 arg |-> student_response,
                 raised |-> FALSE,
                 analysis |-> analysis,
                 val |-> feedback]
      /\ UNCHANGED <<now, calls>>

----------------------------------------------------------------------------
(* get_student_progress *)

\* np.mean as the exact fraction num/den
Mean(xs) == [num |-> SumSeq(xs), den |-> Len(xs)]

\* the records of every student
student_feedback_of_all(history, student_id) == history

student_feedback_of(history, student_id) ==
  SelectSeq(history, LAMBDA f : f.student_id = student_id)

\* an empty report in place of the no-data result
no_data_result_empty_report == [total_responses |-> 0, total_points |-> 0]

\* the result for a student with no feedback
no_data_result == [error |-> "No feedback found for this student"]

progress_report(history, student_id) ==
  LET student_feedback == student_feedback_of(history, student_id)
      n == Len(student_feedback)
      scores == [i \in 1..n |-> student_feedback[i].similarity_score]
      total_points == SumSeq([i \in 1..n |-> student_feedback[i].points_earned])
      reward_counts ==
        [r \in {RewardType[k] : k \in 1..Len(RewardType)} |->
           Cardinality({i \in 1..n : student_feedback[i].reward_type = r})]
  IN  IF n = 0
      THEN no_data_result
      ELSE [student_id |-> student_id,
            total_responses |-> n,
            average_score |-> Mean(scores),
            latest_score |-> scores[n],
            total_points |-> total_points,
            reward_distribution |-> reward_counts,
            recent_improvement |-> IF n > 1 THEN scores[n] - scores[1] ELSE 0,
            last_updated |-> isoformat(student_feedback[n].timestamp)]

\* get_student_progress keeping only the student's records in the history
get_student_progress_filtering(student_id) ==
  /\ ret' = [op |-> "get_student_progress",
             arg |-> student_id,
             raised |-> FALSE,
             val |-> progress_report(feedback_history, student_id)]
  /\ feedback_history' = student_feedback_of(feedback_history, student_id)
  /\ UNCHANGED <<educator_alerts, now, calls>>

get_student_progress(student_id) ==
  /\ ret' = [op |-> "get_student_progress",
             arg |-> student_id,
             raised |-> FALSE,
             val |-> progress_report(feedback_history, student_id)]
  /\ UNCHANGED <<feedback_history, educator_alerts, now, calls>>

----------------------------------------------------------------------------
(* get_educator_dashboard *)

\* seven days of clock ticks
SevenDays == 7 * 24 * 3600 * TicksPerSecond

\* the students whose mean score among the last three records is below 0.4;
\* the list follows the iteration order of a Python set, so it is held as a set
\* a dashboard that takes the last three records of each student
struggling_students_of_own_records(history) ==
  LET all_students == {history[i].student_id : i \in 1..Len(history)}
      recent_scores(student_id) ==
        LET recent == LastN(SelectSeq(history,
                                LAMBDA f : f.student_id = student_id), 3)
        IN  [i \in 1..Len(recent) |-> recent[i].similarity_score]
  IN  {student_id \in all_students :
         /\ recent_scores(student_id) # <<>>
         /\ SumSeq(recent_scores(student_id))
               < 40 * Len(recent_scores(student_id))}

struggling_students_of(history) ==
  LET all_students == {history[i].student_id : i \in 1..Len(history)}
      recent_scores(student_id) ==
        LET recent == SelectSeq(LastN(history, 3),
                                LAMBDA f : f.student_id = student_id)
        IN  [i \in 1..Len(recent) |-> recent[i].similarity_score]
  IN  {student_id \in all_students :
         /\ recent_scores(student_id) # <<>>
         /\ SumSeq(recent_scores(student_id))
               < 40 * Len(recent_scores(student_id))}

dashboard(history, alerts, t) ==
  LET all_students == {history[i].student_id : i \in 1..Len(history)}
      all_scores == [i \in 1..Len(history) |-> history[i].similarity_score]
      class_average == IF all_scores # <<>> THEN Mean(all_scores)
                       ELSE [num |-> 0, den |-> 1]
      struggling_students == struggling_students_of(history)
      recent_alerts == SelectSeq(alerts, LAMBDA a : a.timestamp > t - SevenDays)
  IN  [class_overview |->
         [total_students |-> Cardinality(all_students),
          total_responses |-> Len(history),
          class_average_score |-> class_average,
          students_needing_attention |-> Cardinality(struggling_students)],
       recent_alerts |-> recent_alerts,
       struggling_students |-> struggling_students,
       last_updated |-> isoformat(t)]

\* a dashboard that acknowledges the alerts it has shown
get_educator_dashboard_acknowledging ==
  /\ ret' = [op |-> "get_educator_dashboard",
             raised |-> FALSE,
             val |-> dashboard(feedback_history, educator_alerts, now)]
  /\ educator_alerts' = <<>>
  /\ UNCHANGED <<feedback_history, now, calls>>

get_educator_dashboard ==
  /\ ret' = [op |-> "get_educator_dashboard",
             raised |-> FALSE,
             val |-> dashboard(feedback_history, educator_alerts, now)]
  /\ UNCHANGED <<feedback_history, educator_alerts, now, calls>>

----------------------------------------------------------------------------
(* export_data *)

\* asdict() of a Feedback or an EducatorAlert copies the fields as they are
asdict(obj) == obj

\* json.dump with default=convert_datetime: a datetime is written as its
\* isoformat string; any other object the encoder does not know comes back
\* from convert_datetime unchanged, and the encoder raises ValueError.  The
\* reward_type of a Feedback is a RewardType member, which it does not know.
json_serializable(document) == document.feedback_history = <<>>

convert_datetimes(objs) ==
  [i \in 1..Len(objs) |->
     [objs[i] EXCEPT !.timestamp = isoformat(objs[i].timestamp)]]

export_data(filename) ==
  LET name == IF filename = "" THEN <<"feedback_data", strftime(now)>>
              ELSE <<filename, 0>>
      document == [feedback_history |->
                     [i \in 1..Len(feedback_history) |->
                        asdict(feedback_history[i])],
                   educator_alerts |->
                     [i \in 1..Len(educator_alerts) |->
                        asdict(educator_alerts[i])],
                   export_timestamp |-> isoformat(now)]
  IN  /\ ret' = IF json_serializable(document)
                THEN [op |-> "export_data",
                      raised |-> FALSE,
                      written |-> [document EXCEPT
                         !.educator_alerts = convert_datetimes(@)],
                      val |-> name]
                ELSE [op |-> "export_data",
                      raised |-> TRUE,
                      val |-> "ValueError"]
      /\ UNCHANGED <<feedback_history, educator_alerts, now, calls>>

----------------------------------------------------------------------------
(* generate_feedback called by two threads on one FeedbackGenerator.  The  *)
(* object has no lock; a thread can be preempted between any two           *)
(* statements.  The steps that touch the shared lists are the append of    *)
(* the record, the read of the history by the alert check, and the extend  *)
(* of the alert list; what a call computes around them is local to it.     *)

Threads == {1, 2}

\* up to self.feedback_history.append(feedback)
StoreFeedback(th, student_response, prov) ==
  LET analysis == analyze_response(student_response, prov)
      feedback == make_feedback(student_response, analysis, now)
  IN  /\ calls[th].pc = "idle"
      /\ feedback_history' = Append(feedback_history, feedback)
      /\ calls' = [calls EXCEPT ![th] =
                     [pc |-> "stored",
                      student_response |-> student_response,
                      analysis |-> analysis,
                      feedback |-> feedback]]
      /\ UNCHANGED <<educator_alerts, now, ret>>

\* _check_for_educator_alerts up to the extend: the alerts are computed
\* from the history as it is when the check reads it
CheckAlerts(th) ==
  /\ calls[th].pc = "stored"
  /\ calls' = [calls EXCEPT ![th] =
                 [pc |-> "checked",
                  student_response |-> calls[th].student_response,
                  analysis |-> calls[th].analysis,
                  feedback |-> calls[th].feedback,
                  alerts |-> check_for_educator_alerts(
                               feedback_history,
                               calls[th].student_response,
                               calls[th].analysis.result.score, now)]]
  /\ UNCHANGED <<feedback_history, educator_alerts, now, ret>>

\* self.educator_alerts.extend(alerts) and the return of the feedback
ExtendAlerts(th) ==
  /\ calls[th].pc = "checked"
  /\ educator_alerts' = educator_alerts \o calls[th].alerts
  /\ calls' = [calls EXCEPT ![th] =
                 [pc |-> "returned",
                  student_response |-> calls[th].student_response,
                  analysis |-> calls[th].analysis,
                  feedback |-> calls[th].feedback,
                  alerts |-> calls[th].alerts]]
  /\ ret' = [op |-> "generate_feedback",
             arg |-> calls[th].student_response,
             raised |-> FALSE,
             analysis |-> calls[th].analysis,
             val |-> calls[th].feedback]
  /\ UNCHANGED <<feedback_history, now>>

----------------------------------------------------------------------------
(* The clock *)

Tick ==
  /\ now < MaxClock
  /\ now' = now + 1
  /\ UNCHANGED <<feedback_history, educator_alerts, ret, calls>>

----------------------------------------------------------------------------
(* Inputs and specifications *)

Init ==
  /\ feedback_history = <<>>
  /\ educator_alerts = <<>>
  /\ now = 0
  /\ ret = [op |-> "init", raised |-> FALSE, val |-> ""]
  /\ calls = [th \in Threads |-> [pc |-> "idle"]]

Response(student_id, response_text, subject, expected_keywords) ==
  [student_id |-> student_id, question_id |-> "q_001",
   response_text |-> response_text, subject |-> subject,
   expected_keywords |-> expected_keywords]

\* a provider whose encode calls both return
Returns(resp, refs) == [fail |-> 0, resp |-> resp, refs |-> refs]

(* Spec: every operation, on histories of scores 0.2, 0.3 and 1.0.  No    *)
(* mean of up to three of these scores is 0.4, where the rounding of the  *)
(* floating-point mean would decide the dashboard's comparison.           *)

SpecInputs ==
  {<<Response(st, "Gravity pulls things down", "mathematics", <<>>),
     Returns(v, "same")>> :
       st \in Students, v \in {<<2, 8, 4, 4>>, <<3, 1, 3, 9>>, E1}}

CallGenerateFeedback ==
  /\ Len(feedback_history) < MaxHist
  /\ \E input \in SpecInputs : generate_feedback(input[1], input[2])

CallGetStudentProgress ==
  \E student_id \in Students : get_student_progress(student_id)

CallExportData ==
  \E filename \in {"", "demo_export.json"} : export_data(filename)

Next ==
  \/ CallGenerateFeedback
  \/ CallGetStudentProgress
  \/ get_educator_dashboard
  \/ CallExportData

Spec == Init /\ [][Next]_vars

(* SpecScore: generate_feedback alone, on every response and provider *)

ScoreResponses ==
  {Response(st, "", "Science", <<>>) : st \in Students}
  \cup {Response(st, "Gravity pulls things down", "Science", <<"force", "mass">>) :
          st \in Students}
  \cup {Response(st, "Gravity pulls things down", "history", <<>>) :
          st \in Students}
  \cup {Response(st, "", "history", <<"force", "mass">>) : st \in Students}

ScoreGenerateFeedback ==
  /\ Len(feedback_history) < MaxHistScore
  /\ \E student_response \in ScoreResponses, prov \in Providers :
        generate_feedback(student_response, prov)

NextScore == ScoreGenerateFeedback

SpecScore == Init /\ [][NextScore]_vars

(* SpecAlerts: generate_feedback alone, on long histories of scores 0.2,  *)
(* 0.3 and 0.5                                                             *)

AlertInputs ==
  {<<Response("alice_001", "Gravity pulls things down", "mathematics", <<>>),
     Returns(v, "same")>> : v \in {<<2, 8, 4, 4>>, <<3, 1, 3, 9>>}}
  \cup
  {<<Response("alice_001", "Gravity pulls things down", "history", <<>>),
     Returns(E1, "same")>>,
    <<Response("bob_002", "Gravity pulls things down", "mathematics", <<>>),
     Returns(<<2, 8, 4, 4>>, "same")>>,
    <<Response("bob_002", "Gravity pulls things down", "history", <<>>),
     Returns(E1, "same")>>}

AlertsGenerateFeedback ==
  /\ Len(feedback_history) < MaxHistAlerts
  /\ \E input \in AlertInputs : generate_feedback(input[1], input[2])

NextAlerts == AlertsGenerateFeedback

SpecAlerts == Init /\ [][NextAlerts]_vars

(* SpecReward: determine_reward called on every score of the grid *)

ScoreGrid == -100..100

DetermineReward ==
  /\ \E similarity_score \in ScoreGrid :
        ret' = [op |-> "determine_reward",
                arg |-> similarity_score,
                raised |-> FALSE,
                val |-> determine_reward(similarity_score)]
  /\ UNCHANGED <<feedback_history, educator_alerts, now, calls>>

NextReward == DetermineReward

SpecReward == Init /\ [][NextReward]_vars

(* SpecCompose: generate_personalized_feedback called on every score of   *)
(* the grid, for two responses that differ in student, subject, text and  *)
(* best matches                                                           *)

ComposeInputs ==
  {<<Response("alice_001", "Gravity pulls things down", "mathematics", <<>>),
     <<>>>>,
   <<Response("bob_002", "", "Science", <<"force", "mass">>),
     <<"s_phy_1", "s_che_2">>>>}

ComposeFeedback ==
  /\ \E similarity_score \in ScoreGrid, input \in ComposeInputs :
        ret' = [op |-> "generate_personalized_feedback",
                arg |-> similarity_score,
                input |-> input,
                raised |-> FALSE,
                val |-> generate_personalized_feedback(
                          input[1], similarity_score, input[2])]
  /\ UNCHANGED <<feedback_history, educator_alerts, now, calls>>

NextCompose == ComposeFeedback

SpecCompose == Init /\ [][NextCompose]_vars

(* SpecRoundRobin: generate_feedback and the dashboard for four students  *)
(* who all score 0.2 and take turns: nobody submits again before two      *)
(* others have.  The round-robin orders of three and of four students are *)
(* among these orders.                                                    *)

RoundRobinStudents == {"alice_001", "bob_002", "carol_003", "david_004"}

RoundRobinGenerateFeedback ==
  /\ Len(feedback_history) < MaxHistRoundRobin
  /\ \E student_id \in RoundRobinStudents :
        /\ \A i \in 1..Len(feedback_history) :
              i > Len(feedback_history) - 2
                 => feedback_history[i].student_id # student_id
        /\ generate_feedback(
             Response(student_id, "Gravity pulls things down",
                      "mathematics", <<>>),
             Returns(<<2, 8, 4, 4>>, "same"))

NextRoundRobin ==
  \/ RoundRobinGenerateFeedback
  \/ get_educator_dashboard

SpecRoundRobin == Init /\ [][NextRoundRobin]_vars

(* SpecConcurrent: after some calls made one at a time, two threads call  *)
(* generate_feedback once each, their steps interleaved in every way      *)

ConcurrentInputs ==
  {<<Response("alice_001", "Gravity pulls things down", "mathematics", <<>>),
     Returns(v, "same")>> : v \in {<<3, 1, 3, 9>>, E1}}
  \cup
  {<<Response("bob_002", "Gravity pulls things down", "mathematics", <<>>),
     Returns(<<3, 1, 3, 9>>, "same")>>}

ConcurrentSetUp ==
  /\ \A th \in Threads : calls[th].pc = "idle"
  /\ Len(feedback_history) < MaxHistConcurrent
  /\ \E input \in ConcurrentInputs : generate_feedback(input[1], input[2])

ThreadStoreFeedback ==
  \E th \in Threads, input \in ConcurrentInputs :
     StoreFeedback(th, input[1], input[2])

ThreadCheckAlerts == \E th \in Threads : CheckAlerts(th)

ThreadExtendAlerts == \E th \in Threads : ExtendAlerts(th)

NextConcurrent ==
  \/ ConcurrentSetUp
  \/ ThreadStoreFeedback
  \/ ThreadCheckAlerts
  \/ ThreadExtendAlerts

SpecConcurrent == Init /\ [][NextConcurrent]_vars

(* SpecClock: generate_feedback, the dashboard and the export on short    *)
(* histories, with time passing between the calls                         *)

ClockInputs ==
  {<<Response("alice_001", "Gravity pulls things down", "mathematics", <<>>),
     Returns(v, "same")>> : v \in {<<2, 8, 4, 4>>, E1}}
  \cup
  {<<Response("bob_002", "Gravity pulls things down", "mathematics", <<>>),
     Returns(<<2, 8, 4, 4>>, "same")>>}

ClockGenerateFeedback ==
  /\ Len(feedback_history) < MaxHistClock
  /\ \E input \in ClockInputs : generate_feedback(input[1], input[2])

NextClock ==
  \/ ClockGenerateFeedback
  \/ get_educator_dashboard
  \/ CallExportData
  \/ Tick

SpecClock == Init /\ [][NextClock]_vars

(* SpecDashboard: generate_feedback and the dashboard on histories longer *)
(* than the dashboard's window of three records                           *)

DashboardGenerateFeedback ==
  /\ Len(feedback_history) < MaxHistDashboard
  /\ \E input \in SpecInputs : generate_feedback(input[1], input[2])

NextDashboard ==
  \/ DashboardGenerateFeedback
  \/ get_educator_dashboard

SpecDashboard == Init /\ [][NextDashboard]_vars

----------------------------------------------------------------------------
(* Properties *)

LastFeedback == feedback_history[Len(feedback_history)]

\* the alerts a step appends to the alert list
AppendedAlerts ==
  SubSeq(educator_alerts', Len(educator_alerts) + 1, Len(educator_alerts'))

AlertsOfType(alerts, alert_type) ==
  SelectSeq(alerts, LAMBDA a : a.alert_type = alert_type)

\* a step that is a generate_feedback call
GenerateStep ==
  /\ ret'.op = "generate_feedback"
  /\ Len(feedback_history') = Len(feedback_history) + 1

(* C1: determine_reward returns the pair of the band the score falls in:   *)
(* platinum 100 from 0.90, gold 75 on [0.80, 0.90), silver 50 on           *)
(* [0.65, 0.80), bronze 25 on [0.40, 0.65), bronze 10 below 0.40; and of   *)
(* two calls in a row the one with the higher score earns no fewer points. *)
C1_Bands ==
  ret.op = "determine_reward" =>
    /\ ret.arg >= 90 => ret.val = <<"platinum", 100>>
    /\ (80 <= ret.arg /\ ret.arg < 90) => ret.val = <<"gold", 75>>
    /\ (65 <= ret.arg /\ ret.arg < 80) => ret.val = <<"silver", 50>>
    /\ (40 <= ret.arg /\ ret.arg < 65) => ret.val = <<"bronze", 25>>
    /\ ret.arg < 40 => ret.val = <<"bronze", 10>>

C1_Monotone ==
  (ret.op = "determine_reward" /\ ret'.op = "determine_reward"
     /\ ret.arg <= ret'.arg) => ret.val[2] <= ret'.val[2]

C1_DetermineReward == [](C1_Bands) /\ [][C1_Monotone]_vars

C1_Witness ==
  /\ ret.op = "determine_reward"
  /\ ret.arg = 65
  /\ ret.val = <<"silver", 50>>

(* C2: every record of the history has a similarity score between 0 and 1 *)
C2_ScoreInUnitInterval ==
  \A i \in 1..Len(feedback_history) :
     /\ 0 <= feedback_history[i].similarity_score
     /\ feedback_history[i].similarity_score <= 100

(* C3: a generate_feedback call appends exactly one low_performance alert, *)
(* of severity high, requiring action and naming the call's student, when  *)
(* the recorded score is below 0.3, and none when the score is 0.3 or more *)
C3_LowStep ==
  GenerateStep =>
    LET feedback == feedback_history'[Len(feedback_history')]
        lows == AlertsOfType(AppendedAlerts, "low_performance")
    IN  IF feedback.similarity_score < 30
        THEN /\ Len(lows) = 1
             /\ lows[1].severity = "high"
             /\ lows[1].action_required = TRUE
             /\ lows[1].student_id = feedback.student_id
        ELSE Len(lows) = 0

C3_LowPerformanceRule == [][C3_LowStep]_vars

\* a low score then the boundary score 0.3: one alert, from the first call
C3_Witness ==
  /\ Len(feedback_history) = 2
  /\ feedback_history[1].similarity_score = 20
  /\ feedback_history[2].similarity_score = 30
  /\ feedback_history[2].student_id = feedback_history[1].student_id
  /\ Len(educator_alerts) = 1
  /\ educator_alerts[1].alert_type = "low_performance"

(* C4: a generate_feedback call appends exactly one consistent_struggle    *)
(* alert, of severity medium and naming the call's student, if and only if *)
(* at least 3 of the 5 most recent records of the history (the call's own  *)
(* record included) are that student's and each of those scores below 0.5  *)
C4_StruggleStep ==
  GenerateStep =>
    LET n == Len(feedback_history')
        feedback == feedback_history'[n]
        mine == {i \in 1..n : /\ i > n - 5
                              /\ feedback_history'[i].student_id
                                   = feedback.student_id}
        qualifies ==
          /\ Cardinality(mine) >= 3
          /\ \A i \in mine : feedback_history'[i].similarity_score < 50
        patterns == AlertsOfType(AppendedAlerts, "consistent_struggle")
    IN  IF qualifies
        THEN /\ Len(patterns) = 1
             /\ patterns[1].severity = "medium"
             /\ patterns[1].student_id = feedback.student_id
        ELSE Len(patterns) = 0

C4_ConsistentStruggleRule == [][C4_StruggleStep]_vars

\* the student's first record, of score 0.5, has left the window of five:
\* the sixth call appends a low_performance and a consistent_struggle alert
C4_Witness ==
  /\ Len(feedback_history) = 6
  /\ feedback_history[1].student_id = "alice_001"
  /\ feedback_history[1].similarity_score = 50
  /\ feedback_history[2].student_id = "bob_002"
  /\ feedback_history[3].student_id = "bob_002"
  /\ \A i \in 4..6 : /\ feedback_history[i].student_id = "alice_001"
                      /\ feedback_history[i].similarity_score < 50
  /\ feedback_history[6].similarity_score = 20
  /\ Len(educator_alerts) >= 2
  /\ educator_alerts[Len(educator_alerts) - 1].alert_type = "low_performance"
  /\ educator_alerts[Len(educator_alerts) - 1].student_id = "alice_001"
  /\ educator_alerts[Len(educator_alerts)].alert_type = "consistent_struggle"
  /\ educator_alerts[Len(educator_alerts)].student_id = "alice_001"

\* the history of the script: five records of one student, each of score 0.2
C5_Scripted ==
  /\ Len(feedback_history) = 5
  /\ \A i \in 1..5 :
        /\ feedback_history[i].student_id = feedback_history[1].student_id
        /\ feedback_history[i].similarity_score = 20

AlertTypes == [i \in 1..Len(educator_alerts) |-> educator_alerts[i].alert_type]

(* C5 as stated: after the script the alert list holds five low_performance *)
(* alerts and one consistent_struggle alert                                 *)
C5_ScriptedOneStruggle ==
  C5_Scripted =>
    /\ Len(AlertsOfType(educator_alerts, "low_performance")) = 5
    /\ Len(AlertsOfType(educator_alerts, "consistent_struggle")) = 1

(* C5 as amended: after the script the alert list holds one low_performance *)
(* alert per record and one consistent_struggle alert from each of the 3rd, *)
(* 4th and 5th calls, in the order of the calls                             *)
C5_ScriptedSequence ==
  C5_Scripted =>
    AlertTypes = <<"low_performance", "low_performance",
                   "low_performance", "consistent_struggle",
                   "low_performance", "consistent_struggle",
                   "low_performance", "consistent_struggle">>

C5_Witness ==
  /\ C5_Scripted
  /\ Len(educator_alerts) = 8

IsPrefix(s, t) == Len(s) <= Len(t) /\ SubSeq(t, 1, Len(s)) = s

(* C6: every step keeps the records and alerts already present, in place;  *)
(* a generate_feedback call appends one record and at most two alerts, and *)
(* appends an alert whenever its score is below 0.3, whatever alerts are    *)
(* already listed; the three queries change neither list                   *)
C6_Step ==
  /\ IsPrefix(feedback_history, feedback_history')
  /\ IsPrefix(educator_alerts, educator_alerts')
  /\ ret'.op = "generate_feedback" =>
        /\ Len(feedback_history') = Len(feedback_history) + 1
        /\ Len(educator_alerts') - Len(educator_alerts) \in 0..2
        /\ ret'.val.similarity_score < 30 =>
              Len(educator_alerts') > Len(educator_alerts)
  /\ ret'.op \in {"get_student_progress", "get_educator_dashboard",
                   "export_data"} =>
        /\ feedback_history' = feedback_history
        /\ educator_alerts' = educator_alerts

C6_AppendOnly == [][C6_Step]_vars

\* a repeated qualifying call: the same alert is listed twice, and a query
\* made afterwards
C6_Witness ==
  /\ Len(feedback_history) = 2
  /\ Len(educator_alerts) = 2
  /\ educator_alerts[1] = educator_alerts[2]
  /\ ret.op = "export_data"

(* C7: when the except clause of analyze_response has caught a failure of  *)
(* the provider or of the similarity computation, the pair returned is     *)
(* (0.0, []) and generate_feedback has returned a Feedback of score 0.0    *)
(* which is the last record of the history; generate_feedback never raises *)
C7_FailureDegrades ==
  ret.op = "generate_feedback" =>
    /\ ~ret.raised
    /\ feedback_history # <<>>
    /\ LastFeedback = ret.val
    /\ ret.analysis.caught # "none" =>
          /\ ret.analysis.result = [score |-> 0, matches |-> <<>>]
          /\ ret.val.similarity_score = 0

\* the provider fails on an empty response text
C7_Witness ==
  /\ ret.op = "generate_feedback"
  /\ ret.arg.response_text = ""
  /\ ret.analysis.caught = "encode"
  /\ LastFeedback.similarity_score = 0

(* C8: for the subject "history", which the corpus lacks, the pair         *)
(* returned is (0.5, []), no encode call is made and no error is logged;   *)
(* for "Science" and "mathematics" the provider is called and the default  *)
(* path is not taken                                                       *)
C8_UnknownSubject ==
  ret.op = "generate_feedback" =>
    /\ ret.arg.subject = "history" =>
          /\ ret.analysis.result = [score |-> 50, matches |-> <<>>]
          /\ ret.analysis.encode_calls = 0
          /\ ret.analysis.caught = "none"
          /\ ret.analysis.log # "error"
    /\ ret.arg.subject \in {"Science", "mathematics"} =>
          /\ ret.analysis.encode_calls >= 1
          /\ ret.analysis.log # "warning"

C8_Witness ==
  /\ ret.op = "generate_feedback"
  /\ ret.arg.subject = "history"
  /\ ret.arg.expected_keywords # <<>>
  /\ ret.val.similarity_score = 50
  /\ ret.analysis.encode_calls = 0

\* the positions of a student's records in the history
RecordsOf(student_id) ==
  {i \in 1..Len(feedback_history) :
     feedback_history[i].student_id = student_id}

(* C9: get_student_progress for a student with no record returns, without  *)
(* raising, the result that has the key "error", and for a student with a  *)
(* record a result without that key; the call leaves the history and the   *)
(* alert list as they were                                                 *)
C9_NoData ==
  ret.op = "get_student_progress" =>
    /\ ~ret.raised
    /\ ("error" \in DOMAIN ret.val) <=> (RecordsOf(ret.arg) = {})

C9_Unchanged ==
  ret'.op = "get_student_progress" =>
    /\ feedback_history' = feedback_history
    /\ educator_alerts' = educator_alerts

C9_ProgressNoData == [](C9_NoData) /\ [][C9_Unchanged]_vars

\* the student has no record while another student has one
C9_Witness ==
  /\ ret.op = "get_student_progress"
  /\ "error" \in DOMAIN ret.val
  /\ RecordsOf(ret.arg) = {}
  /\ feedback_history # <<>>

\* the points of the student's records among the first k of the history
RECURSIVE PointsUpTo(_, _)
PointsUpTo(student_id, k) ==
  IF k = 0 THEN 0
  ELSE PointsUpTo(student_id, k - 1)
       + (IF feedback_history[k].student_id = student_id
          THEN feedback_history[k].points_earned ELSE 0)

(* C10: for a student with a record, the report counts that student's      *)
(* records, sums their points, gives the score of the student's last       *)
(* record, the difference between the student's last and first scores (0   *)
(* with one record), and a count for each of the four tiers, which add up  *)
(* to the number of records                                                *)
C10_ProgressReport ==
  (ret.op = "get_student_progress" /\ RecordsOf(ret.arg) # {}) =>
    LET mine == RecordsOf(ret.arg)
        first == feedback_history[MinOf(mine)]
        last == feedback_history[MaxOf(mine)]
        dist == ret.val.reward_distribution
    IN  /\ ret.val.total_responses = Cardinality(mine)
        /\ ret.val.total_points = PointsUpTo(ret.arg, Len(feedback_history))
        /\ ret.val.latest_score = last.similarity_score
        /\ ret.val.recent_improvement =
              (IF Cardinality(mine) > 1
               THEN last.similarity_score - first.similarity_score
               ELSE 0)
        /\ DOMAIN dist = {"bronze", "silver", "gold", "platinum"}
        /\ \A r \in DOMAIN dist :
              dist[r] = Cardinality({i \in mine :
                                      feedback_history[i].reward_type = r})
        /\ dist["bronze"] + dist["silver"] + dist["gold"] + dist["platinum"]
              = ret.val.total_responses

\* the student's two records are separated by a record of the other student
C10_Witness ==
  /\ ret.op = "get_student_progress"
  /\ Len(feedback_history) = 3
  /\ RecordsOf(ret.arg) = {1, 3}
  /\ ret.val.recent_improvement = 80
  /\ ret.val.total_points = 110
  /\ ret.val.reward_distribution["silver"] = 0

(* C11: two get_educator_dashboard calls with no generate_feedback call    *)
(* between them return the same class_overview, whatever time passes       *)
(* between them; a dashboard call changes neither list; and on the empty   *)
(* history the class average is 0 and every count is 0.                    *)
C11_Repeatable ==
  ret.op = "get_educator_dashboard" =>
    /\ ret.val.class_overview
         = dashboard(feedback_history, educator_alerts, now).class_overview
    /\ feedback_history = <<>> =>
         /\ ret.val.class_overview.total_students = 0
         /\ ret.val.class_overview.total_responses = 0
         /\ ret.val.class_overview.class_average_score.num = 0
         /\ ret.val.class_overview.students_needing_attention = 0

C11_Step ==
  /\ ret'.op = "get_educator_dashboard" /\ ret' # ret =>
       /\ feedback_history' = feedback_history
       /\ educator_alerts' = educator_alerts
  /\ (ret.op = "get_educator_dashboard" /\ ret'.op = "get_educator_dashboard")
       => ret'.val.class_overview = ret.val.class_overview

C11_DashboardIdempotent == [](C11_Repeatable) /\ [][C11_Step]_vars

\* a dashboard taken one tick after the only call, which raised an alert
C11_Witness ==
  /\ ret.op = "get_educator_dashboard"
  /\ Len(feedback_history) = 1
  /\ Len(educator_alerts) = 1
  /\ feedback_history[1].timestamp = 0
  /\ ret.val.last_updated = isoformat(1)
  /\ ret.val.class_overview.total_responses = 1

(* C12: the dashboard lists a student as struggling exactly when at least  *)
(* one of the last three records of the whole history is the student's and *)
(* the mean score of those records is below 0.4; it reports as             *)
(* students_needing_attention the number of students listed, as            *)
(* total_students the number of distinct student ids of the history and as *)
(* total_responses the length of the history.                              *)
C12_DashboardStruggling ==
  ret.op = "get_educator_dashboard" =>
    LET n == Len(feedback_history)
        own(student_id) ==
          {i \in 1..n : /\ i > n - 3
                        /\ feedback_history[i].student_id = student_id}
        total(student_id) ==
          SumSeq([i \in 1..n |->
                    IF i \in own(student_id)
                    THEN feedback_history[i].similarity_score ELSE 0])
    IN  /\ ret.val.struggling_students \subseteq Students
        /\ \A student_id \in Students :
             student_id \in ret.val.struggling_students
               <=> /\ own(student_id) # {}
                   /\ total(student_id) < 40 * Cardinality(own(student_id))
        /\ ret.val.class_overview.students_needing_attention
             = Cardinality(ret.val.struggling_students)
        /\ ret.val.class_overview.total_students
             = Cardinality({feedback_history[i].student_id : i \in 1..n})
        /\ ret.val.class_overview.total_responses = n

\* alice's first score 1.0 lies outside the window: alice is listed for the
\* mean 0.25 of her two records in it, bob for his one record
C12_Witness ==
  /\ ret.op = "get_educator_dashboard"
  /\ Len(feedback_history) = 4
  /\ feedback_history[1].student_id = "alice_001"
  /\ feedback_history[1].similarity_score = 100
  /\ feedback_history[2].student_id = "bob_002"
  /\ feedback_history[3].similarity_score = 20
  /\ feedback_history[4].similarity_score = 30
  /\ ret.val.struggling_students = {"alice_001", "bob_002"}
  /\ ret.val.class_overview.students_needing_attention = 2

(* C13: an export_data call completes in every state, returns the name of  *)
(* the file and writes one document holding every record of the history    *)
(* and every alert in list order, each timestamp as its ISO string, and an *)
(* export_timestamp.                                                       *)
C13_ExportCompletes ==
  ret.op = "export_data" =>
    /\ ret.raised = FALSE
    /\ ret.val[1] \in {"feedback_data", "demo_export.json"}
    /\ Len(ret.written.feedback_history) = Len(feedback_history)
    /\ \A i \in 1..Len(feedback_history) :
         /\ ret.written.feedback_history[i].response_id
              = feedback_history[i].response_id
         /\ ret.written.feedback_history[i].timestamp
              = isoformat(feedback_history[i].timestamp)
    /\ Len(ret.written.educator_alerts) = Len(educator_alerts)
    /\ \A i \in 1..Len(educator_alerts) :
         /\ ret.written.educator_alerts[i].alert_id
              = educator_alerts[i].alert_id
         /\ ret.written.educator_alerts[i].timestamp
              = isoformat(educator_alerts[i].timestamp)
    /\ ret.written.export_timestamp = isoformat(now)

(* C14: the response_id values of the history are pairwise distinct and    *)
(* the alert_id values of the alert list are pairwise distinct, also when  *)
(* several generate_feedback calls fall within one second of the clock.    *)
C14_IdsDistinct ==
  /\ \A i, j \in 1..Len(feedback_history) :
       i # j => feedback_history[i].response_id # feedback_history[j].response_id
  /\ \A i, j \in 1..Len(educator_alerts) :
       i # j => educator_alerts[i].alert_id # educator_alerts[j].alert_id

(* C15: generate_personalized_feedback depends on the score alone: from    *)
(* 0.8 it returns 3 strengths, no improvement areas and 2 tips, on         *)
(* [0.6, 0.8) 2, 2 and 3, below 0.6 1, 2 and 4; the text is the            *)
(* description of the tier determine_reward gives the score, followed by   *)
(* the sentence of the band; reward_type and points are those of           *)
(* determine_reward; two calls with scores of the same band return the     *)
(* same phrases, and two calls with the same score the same output,        *)
(* whatever the student, subject, response text and best matches are.      *)
C15_BandOf ==
  [similarity_score \in ScoreGrid |->
     IF similarity_score >= 80 THEN "high"
     ELSE IF similarity_score >= 60 THEN "mid" ELSE "low"]

C15_Bands ==
  ret.op = "generate_personalized_feedback" =>
    LET counts == <<Len(ret.val.strengths), Len(ret.val.improvement_areas),
                    Len(ret.val.tips)>>
        description ==
          IF ret.arg >= 90 THEN "Exceptional understanding!"
          ELSE IF ret.arg >= 80 THEN "Excellent work!"
          ELSE IF ret.arg >= 65 THEN "Good effort!"
          ELSE "Keep trying!"
    IN  /\ C15_BandOf[ret.arg] = "high" => counts = <<3, 0, 2>>
        /\ C15_BandOf[ret.arg] = "mid" => counts = <<2, 2, 3>>
        /\ C15_BandOf[ret.arg] = "low" => counts = <<1, 2, 4>>
        /\ ret.val.feedback_text[1] = description
        /\ ret.val.feedback_text[1]
             = criteria_of(determine_reward(ret.arg)[1]).description
        /\ <<ret.val.reward_type, ret.val.points>> = determine_reward(ret.arg)

C15_Step ==
  (ret.op = "generate_personalized_feedback"
     /\ ret'.op = "generate_personalized_feedback") =>
    /\ C15_BandOf[ret.arg] = C15_BandOf[ret'.arg] =>
         /\ ret'.val.strengths = ret.val.strengths
         /\ ret'.val.improvement_areas = ret.val.improvement_areas
         /\ ret'.val.tips = ret.val.tips
         /\ ret'.val.feedback_text[2] = ret.val.feedback_text[2]
    /\ C15_BandOf[ret.arg] # C15_BandOf[ret'.arg] =>
         ret'.val.feedback_text[2] # ret.val.feedback_text[2]
    /\ ret.arg = ret'.arg => ret'.val = ret.val

C15_PersonalizedFeedback == [](C15_Bands) /\ [][C15_Step]_vars

\* score 0.62: the mid band with the bronze description
C15_Witness ==
  /\ ret.op = "generate_personalized_feedback"
  /\ ret.arg = 62
  /\ ret.input[1].student_id = "bob_002"
  /\ Len(ret.val.strengths) = 2
  /\ ret.val.feedback_text[1] = "Keep trying!"
  /\ ret.val.reward_type = "bronze"
  /\ ret.val.points = 25

(* C16: when three or more distinct students submit in strict round-robin  *)
(* order, no consistent_struggle alert is ever emitted, although every     *)
(* recorded score is below 0.5; and a student none of whose records is     *)
(* among the last three records of the whole history is not listed as      *)
(* struggling by the dashboard, whatever the student's own scores are.     *)
C16_RoundRobin ==
  \E k \in 3..Cardinality(RoundRobinStudents) :
    /\ \A i, j \in 1..Len(feedback_history) :
         (i < j /\ j <= k) =>
            feedback_history[i].student_id # feedback_history[j].student_id
    /\ \A i \in (k + 1)..Len(feedback_history) :
         feedback_history[i].student_id = feedback_history[i - k].student_id

C16_InWindow(student_id) ==
  \E i \in 1..Len(feedback_history) :
     /\ i > Len(feedback_history) - 3
     /\ feedback_history[i].student_id = student_id

C16_GlobalWindow ==
  /\ (C16_RoundRobin
        /\ \A i \in 1..Len(feedback_history) :
              feedback_history[i].similarity_score < 50)
       => AlertsOfType(educator_alerts, "consistent_struggle") = <<>>
  /\ ret.op = "get_educator_dashboard" =>
       \A student_id \in RoundRobinStudents :
          ~C16_InWindow(student_id)
             => student_id \notin ret.val.struggling_students

\* seven calls of four students in turn, all scoring 0.2: seven low
\* performance alerts and no other, and the dashboard does not list david,
\* whose one record is the fourth
C16_Witness ==
  /\ Len(feedback_history) = 7
  /\ C16_RoundRobin
  /\ feedback_history[4].student_id = "david_004"
  /\ feedback_history[5].student_id = feedback_history[1].student_id
  /\ \A i \in 1..7 : feedback_history[i].similarity_score = 20
  /\ Len(educator_alerts) = 7
  /\ ret.op = "get_educator_dashboard"
  /\ ret.val.struggling_students = RoundRobinStudents \ {"david_004"}

(* C17: when two generate_feedback calls run concurrently, the final       *)
(* history and the alerts emitted are those of running the two calls one   *)
(* after the other in some order.                                          *)
C17_Count(alerts, alert) ==
  Cardinality({i \in 1..Len(alerts) : alerts[i] = alert})

C17_SameAlerts(emitted, expected) ==
  /\ Len(emitted) = Len(expected)
  /\ \A i \in 1..Len(emitted) :
        C17_Count(emitted, emitted[i]) = C17_Count(expected, emitted[i])

\* the history and the alerts emitted when thread first runs its whole call
\* on the history before and thread second runs its call after it
C17_OneAfterTheOther(before, first, second) ==
  LET history1 == Append(before, calls[first].feedback)
      alerts1 == check_for_educator_alerts(
                   history1, calls[first].student_response,
                   calls[first].analysis.result.score,
                   calls[first].feedback.timestamp)
      history2 == Append(history1, calls[second].feedback)
      alerts2 == check_for_educator_alerts(
                   history2, calls[second].student_response,
                   calls[second].analysis.result.score,
                   calls[second].feedback.timestamp)
  IN  [history |-> history2, alerts |-> alerts1 \o alerts2]

C17_Serializable ==
  (\A th \in Threads : calls[th].pc = "returned") =>
    LET before == SubSeq(feedback_history, 1, Len(feedback_history) - 2)
        emitted == SubSeq(educator_alerts,
                          Len(educator_alerts) - Len(calls[1].alerts)
                             - Len(calls[2].alerts) + 1,
                          Len(educator_alerts))
    IN  \E first \in Threads :
          LET serial == C17_OneAfterTheOther(before, first,
                                             CHOOSE th \in Threads : th # first)
          IN  /\ feedback_history = serial.history
              /\ C17_SameAlerts(emitted, serial.alerts)

====
